---- MODULE Spec2Model ----
(***************************************************************************)
(* The two upload test scripts of the repository as one state machine.     *)
(*   script = "step1" : scripts/step1-local-api-local-sc2reader.py         *)
(*   script = "flow"  : scripts/test-upload-flow.py                        *)
(* The environment (secrets, argv, the replay path, lsof, the wall clock   *)
(* and the HTTP peer) is drawn nondeterministically where the code reads   *)
(* it.  A process ends by a normal sys.exit, by the configuration          *)
(* sys.exit, by the usage sys.exit, or by an exception no handler catches  *)
(* ("crash", which CPython reports with exit status 1).                    *)
(***************************************************************************)
EXTENDS Integers, Sequences, FiniteSets, TLC

VARIABLES
    script,     \* which of the two scripts is running
    authSecret, \* os.getenv('AUTH_SECRET') is a non-empty string
    apiKey,     \* os.getenv('SC2READER_API_KEY') is a non-empty string
    argv,       \* sys.argv[1] of the scenario runner ("none" when absent)
    pc,         \* position of the process
    cur,        \* key of the scenario test_upload is running
    todo,       \* keys the "all" loop has still to run
    results,    \* main's results dict, in insertion order
    ret,        \* value of the last return of upload_replay / test_upload
    missing,    \* check_requirements' missing list
    lsof,       \* outcome of the lsof call made for each entry of requires
    file,       \* what the replay path turned out to be
    clock,      \* the wall clock, in ticks
    token,      \* <<>> or <<decoded payload of the token>>
    resp,       \* <<>> or <<outcome of requests.post>>
    posts,      \* every POST issued by the process
    trace,      \* steps the current runner invocation has passed
    printedId,  \* the "Replay ID" line of the current invocation
    inv,        \* number of runner invocations started
    exitKind,   \* how the process ended
    exitCode,   \* its exit status (meaningful when pc = "exited")
    summary     \* the lines of the SUMMARY table

vars == <<script, authSecret, apiKey, argv, pc, cur, todo, results, ret,
          missing, lsof, file, clock, token, resp, posts, trace, printedId,
          inv, exitKind, exitCode, summary>>

(***************************************************************************)
(* Bounds of the model.                                                    *)
(***************************************************************************)
TicksPerSec == 2    \* clock resolution: ticks in one second
MaxClock == 3       \* latest tick at which a process starts
MaxDrift == 1       \* ticks that can pass between two utcnow() calls

(***************************************************************************)
(* Program constants.                                                      *)
(***************************************************************************)
HourSeconds == 3600

USER_ID == "161384451518103552"
ROLE_ID == "1386739785283928124"

LOCAL_NEXT_API == "http://localhost:3000"
PROD_NEXT_API == "https://www.ladderlegendsacademy.com"
LOCAL_SC2READER == "http://localhost:8000"
PROD_SC2READER == "https://sc2-replay-analyzer-gold.vercel.app/"
NEXT_API_URL == "http://localhost:3000"

TESTS ==
    [k \in {"1", "2", "3"} |->
        CASE k = "1" -> [name |-> "Step 1: Local API -> Local sc2reader",
                         api_url |-> LOCAL_NEXT_API,
                         sc2reader_url |-> LOCAL_SC2READER,
                         requires |-> <<"next:3000", "sc2reader:8000">>]
          [] k = "2" -> [name |-> "Step 2: Local API -> Production sc2reader",
                         api_url |-> LOCAL_NEXT_API,
                         sc2reader_url |-> PROD_SC2READER,
                         requires |-> <<"next:3000">>]
          [] k = "3" -> [name |-> "Step 3: Production API -> Production sc2reader",
                         api_url |-> PROD_NEXT_API,
                         sc2reader_url |-> PROD_SC2READER,
                         requires |-> <<>>]]

\* sorted(TESTS.keys())
SortedKeys == <<"1", "2", "3">>

(***************************************************************************)
(* Inputs.                                                                 *)
(***************************************************************************)
Argvs == {"none", "1", "2", "3", "all", "bad"}

\* What the replay path is when os.path.exists looks at it: absent, present
\* but not openable for reading (a directory, no read permission), or a
\* readable file.
FileStates == {"missing", "unreadable", "readable"}

\* subprocess.run(['lsof', ...]): return code 0, a non-zero return code, or
\* an exception (lsof not installed).
LsofOutcomes == {"rc0", "rc1", "exception"}

Ids == {"X", "Y"}
Statuses == {200, 404, 500}

\* Shapes of a response body.  json: the text is not JSON, JSON that is not
\* an object, or an object.  success: key absent, falsy, truthy.  replay: key
\* absent, a non-object value, an object (id: its 'id' or "absent").
\* fingerprint (of replay): absent or falsy, a truthy non-object, an object
\* (metadata: key absent, null, an object).
Bodies ==
    {b \in [json : {"invalid", "nonobject", "object"},
            success : {"absent", "false", "true"},
            replay : {"absent", "nonobject", "object"},
            id : Ids \cup {"absent"},
            fingerprint : {"absent", "nonobject", "object"},
            metadata : {"absent", "null", "object"}] :
        /\ b.json # "object" => b.success = "absent" /\ b.replay = "absent"
        /\ b.replay # "object" => b.id = "absent" /\ b.fingerprint = "absent"
        /\ b.fingerprint # "object" => b.metadata = "absent"}

NoBody == [json |-> "invalid", success |-> "absent", replay |-> "absent",
           id |-> "absent", fingerprint |-> "absent", metadata |-> "absent"]

\* Outcomes of requests.post(..., timeout=60).
Outcomes ==
    {[kind |-> k, status |-> 0, body |-> NoBody] :
        k \in {"timeout", "connerr", "other"}}
    \cup {[kind |-> "response", status |-> s, body |-> b] :
            s \in Statuses, b \in Bodies}


(***************************************************************************)
(* Pure helpers.                                                           *)
(***************************************************************************)
Range(s) == {s[i] : i \in 1..Len(s)}

\* An existence check that lets every path through.
path_exists_always(f) == TRUE

\* os.path.exists(replay_path)
path_exists(f) == f # "missing"

\* open(replay_path, 'rb') returns a file object; otherwise it raises OSError.
can_open(f) == f = "readable"

\* A port check whose except clause returns True.
check_process_running_except_true(out) == out \in {"rc0", "exception"}

\* check_process_running: True exactly when lsof ran and returned 0.
check_process_running(out) == out = "rc0"

\* The missing list check_requirements builds: the entries of requires, in
\* order, whose port check failed.  outs[i] is the lsof outcome for entry i.
missing_list(requires, outs) ==
    LET idx == SelectSeq([i \in 1..Len(requires) |-> i],
                         LAMBDA i : ~check_process_running(outs[i]))
    IN  [j \in 1..Len(idx) |-> requires[idx[j]]]

\* jwt.encode turns a datetime claim into whole seconds since the epoch
\* (timegm of the UTC time tuple): the sub-second part is dropped.
numeric_date(t) == t \div TicksPerSec

\* The payload generate_token signs, as a decoder reads it back.  t1 and t2
\* are the instants returned by the two datetime.utcnow() calls.
token_payload(t1, t2, n) ==
    [mint |-> n,
     userId |-> USER_ID,
     type |-> "uploader",
     roles |-> <<ROLE_ID>>,
     iat |-> numeric_date(t1),
     exp |-> numeric_date(t2 + HourSeconds * TicksPerSec)]

\* Instants the second utcnow() call can return when the first returned t:
\* the time that passes between the two calls (a wall clock stepped back by
\* an adjustment would add earlier instants).
Later(t) == t..(t + MaxDrift)

\* The status-200 branch.  Every exception raised in it (response.json() on
\* a non-JSON text, .get on a non-object, a missing key, subscripting a
\* non-object) reaches "except Exception" and gives False.  id is the
\* "Replay ID" line when it was printed.
on_status_200(b) ==
    IF b.json = "invalid" THEN [ret |-> FALSE, id |-> "none"]
    ELSE IF b.json = "nonobject" THEN [ret |-> FALSE, id |-> "none"]
    ELSE IF b.success # "true" THEN [ret |-> FALSE, id |-> "none"]
    ELSE IF b.replay # "object" THEN [ret |-> FALSE, id |-> "none"]
    ELSE IF b.id = "absent" THEN [ret |-> FALSE, id |-> "none"]
    ELSE IF b.fingerprint = "nonobject" THEN [ret |-> FALSE, id |-> b.id]
    ELSE IF b.fingerprint = "object" /\ b.metadata = "null"
         THEN [ret |-> FALSE, id |-> b.id]
    ELSE [ret |-> TRUE, id |-> b.id]

\* upload_replay from the return of requests.post on: the response branches
\* and the two except clauses (ConnectionError, Exception).
upload_replay_result(o) ==
    IF o.kind = "connerr" THEN [ret |-> FALSE, id |-> "none"]
    ELSE IF o.kind # "response" THEN [ret |-> FALSE, id |-> "none"]
    ELSE IF o.status = 200 THEN on_status_200(o.body)
    ELSE [ret |-> FALSE, id |-> "none"]

\* test_upload from the return of requests.post on: the response branches
\* and the three except clauses (Timeout, ConnectionError, Exception).
test_upload_result(o) ==
    IF o.kind = "timeout" THEN [ret |-> FALSE, id |-> "none"]
    ELSE IF o.kind = "connerr" THEN [ret |-> FALSE, id |-> "none"]
    ELSE IF o.kind # "response" THEN [ret |-> FALSE, id |-> "none"]
    ELSE IF o.status = 200 THEN on_status_200(o.body)
    ELSE [ret |-> FALSE, id |-> "none"]

\* An exit status computed with any() in place of all().
all_exit_code_any(res) == IF \E i \in 1..Len(res) : res[i].passed THEN 0 ELSE 1

\* sys.exit(0 if all(results.values()) else 1)
all_exit_code(res) == IF \A i \in 1..Len(res) : res[i].passed THEN 0 ELSE 1

\* sys.exit(0 if success else 1)
exit_code(success) == IF success THEN 0 ELSE 1

\* The SUMMARY table: one line per entry of results.
summary_lines(res) ==
    [i \in 1..Len(res) |->
        [name |-> TESTS[res[i].key].name,
         status |-> IF res[i].passed THEN "PASS" ELSE "FAIL"]]

(***************************************************************************)
(* Initial state: a process about to run its module-level code.            *)
(***************************************************************************)
Init ==
    /\ script \in {"step1", "flow"}
    /\ authSecret \in BOOLEAN
    /\ apiKey \in BOOLEAN
    /\ argv \in (IF script = "flow" THEN Argvs ELSE {"none"})
    /\ pc = "load"
    /\ cur = "none"
    /\ todo = <<>>
    /\ results = <<>>
    /\ ret = FALSE
    /\ missing = <<>>
    /\ lsof = <<>>
    /\ file = "unchecked"
    /\ clock \in 0..MaxClock
    /\ token = <<>>
    /\ resp = <<>>
    /\ posts = <<>>
    /\ trace = <<>>
    /\ printedId = "none"
    /\ inv = 0
    /\ exitKind = "running"
    /\ exitCode = 0
    /\ summary = <<>>

env == <<script, authSecret, apiKey, argv>>

\* sys.exit(code), or the interpreter ending on an uncaught exception.
Exit(kind, code) ==
    /\ pc' = "exited"
    /\ exitKind' = kind
    /\ exitCode' = code

\* Entering upload_replay / test_upload: fresh locals.
Begin(key) ==
    /\ cur' = key
    /\ inv' = inv + 1
    /\ trace' = <<>>
    /\ missing' = <<>>
    /\ lsof' = <<>>
    /\ file' = "unchecked"
    /\ token' = <<>>
    /\ resp' = <<>>
    /\ printedId' = "none"


(***************************************************************************)
(* scripts/step1-local-api-local-sc2reader.py                              *)
(***************************************************************************)

\* Module level: both secrets are required before anything else runs.
S1_config ==
    /\ pc = "load" /\ script = "step1"
    /\ IF ~authSecret THEN Exit("config", 1)
       ELSE IF ~apiKey THEN Exit("config", 1)
       ELSE pc' = "main" /\ UNCHANGED <<exitKind, exitCode>>
    /\ UNCHANGED <<env, cur, todo, results, ret, missing, lsof, file, clock,
                   token, resp, posts, trace, printedId, inv, summary>>

\* __main__: success = upload_replay(replay_path)
S1_main ==
    /\ pc = "main" /\ script = "step1"
    /\ Begin("step1")
    /\ pc' = "token"
    /\ UNCHANGED <<env, todo, results, ret, clock, posts, exitKind, exitCode,
                   summary>>

\* upload_replay, first statement: token = generate_token().  The clock is
\* read twice; it may move between the two reads.
S1_generate_token ==
    /\ pc = "token" /\ script = "step1"
    /\ \E t2 \in Later(clock) :
        /\ token' = <<token_payload(clock, t2, inv)>>
        /\ clock' = t2
    /\ trace' = Append(trace, "token")
    /\ pc' = "exists"
    /\ UNCHANGED <<env, cur, todo, results, ret, missing, lsof, file, resp,
                   posts, printedId, inv, exitKind, exitCode, summary>>

\* upload_replay: if not os.path.exists(replay_path): return False
S1_exists ==
    /\ pc = "exists" /\ script = "step1"
    /\ \E f \in FileStates :
        /\ file' = f
        /\ IF path_exists(f)
           THEN /\ pc' = "open"
                /\ trace' = Append(trace, "exists")
                /\ UNCHANGED ret
           ELSE /\ pc' = "returned"
                /\ ret' = FALSE
                /\ UNCHANGED trace
    /\ UNCHANGED <<env, cur, todo, results, missing, lsof, clock, token, resp,
                   posts, printedId, inv, exitKind, exitCode, summary>>

\* upload_replay: with open(replay_path, 'rb') as f -- outside the try.
S1_open ==
    /\ pc = "open" /\ script = "step1"
    /\ IF can_open(file)
       THEN /\ pc' = "post"
            /\ trace' = Append(trace, "open")
            /\ UNCHANGED <<exitKind, exitCode>>
       ELSE /\ Exit("crash", 1)
            /\ UNCHANGED trace
    /\ UNCHANGED <<env, cur, todo, results, ret, missing, lsof, file, clock,
                   token, resp, posts, printedId, inv, summary>>

\* upload_replay: response = requests.post(...)
S1_post ==
    /\ pc = "post" /\ script = "step1"
    /\ posts' = Append(posts, [inv |-> inv,
                               base |-> NEXT_API_URL,
                               path |-> "/api/my-replays",
                               bearer |-> token[1].mint])
    /\ \E o \in Outcomes : resp' = <<o>>
    /\ trace' = Append(trace, "post")
    /\ pc' = "interpret"
    /\ UNCHANGED <<env, cur, todo, results, ret, missing, lsof, file, clock,
                   token, printedId, inv, exitKind, exitCode, summary>>

\* upload_replay: the rest of the try block and its except clauses.
S1_interpret ==
    /\ pc = "interpret" /\ script = "step1"
    /\ ret' = upload_replay_result(resp[1]).ret
    /\ printedId' = upload_replay_result(resp[1]).id
    /\ pc' = "returned"
    /\ UNCHANGED <<env, cur, todo, results, missing, lsof, file, clock, token,
                   resp, posts, trace, inv, exitKind, exitCode, summary>>

\* __main__: sys.exit(0 if success else 1)
S1_exit ==
    /\ pc = "returned" /\ script = "step1"
    /\ Exit("normal", exit_code(ret))
    /\ UNCHANGED <<env, cur, todo, results, ret, missing, lsof, file, clock,
                   token, resp, posts, trace, printedId, inv, summary>>

(***************************************************************************)
(* scripts/test-upload-flow.py                                             *)
(***************************************************************************)

\* Module level: the secrets are read, nothing is checked.
load ==
    /\ pc = "load" /\ script = "flow"
    /\ pc' = "main"
    /\ UNCHANGED <<env, cur, todo, results, ret, missing, lsof, file, clock,
                   token, resp, posts, trace, printedId, inv, exitKind,
                   exitCode, summary>>

\* main: no argument, or a step that is neither 'all' nor a key of TESTS.
main_usage ==
    /\ pc = "main" /\ script = "flow"
    /\ argv \notin (DOMAIN TESTS \cup {"all"})
    /\ Exit(IF argv = "none" THEN "usage" ELSE "invalid", 1)
    /\ UNCHANGED <<env, cur, todo, results, ret, missing, lsof, file, clock,
                   token, resp, posts, trace, printedId, inv, summary>>

\* main, step == 'all': results = {}; for key in sorted(TESTS.keys())
main_all ==
    /\ pc = "main" /\ script = "flow"
    /\ argv = "all"
    /\ results' = <<>>
    /\ todo' = SortedKeys
    /\ pc' = "loop"
    /\ UNCHANGED <<env, cur, ret, missing, lsof, file, clock, token, resp,
                   posts, trace, printedId, inv, exitKind, exitCode, summary>>

\* main, 'all' loop: the next key's test_upload is called.
main_all_call ==
    /\ pc = "loop" /\ script = "flow"
    /\ todo # <<>>
    /\ Begin(Head(todo))
    /\ todo' = Tail(todo)
    /\ pc' = "requirements"
    /\ UNCHANGED <<env, results, ret, clock, posts, exitKind, exitCode,
                   summary>>

\* main, 'all' loop: results[key] = <what test_upload returned>
main_all_store ==
    /\ pc = "returned" /\ script = "flow"
    /\ argv = "all"
    /\ results' = Append(results, [key |-> cur, passed |-> ret])
    /\ pc' = "loop"
    /\ UNCHANGED <<env, cur, todo, ret, missing, lsof, file, clock, token,
                   resp, posts, trace, printedId, inv, exitKind, exitCode,
                   summary>>

\* main, after the 'all' loop: the summary table, then sys.exit.
main_all_summary ==
    /\ pc = "loop" /\ script = "flow"
    /\ todo = <<>>
    /\ summary' = summary_lines(results)
    /\ Exit("normal", all_exit_code(results))
    /\ UNCHANGED <<env, cur, todo, results, ret, missing, lsof, file, clock,
                   token, resp, posts, trace, printedId, inv>>

\* main, step in TESTS: success = test_upload(TESTS[step], replay_path)
main_step ==
    /\ pc = "main" /\ script = "flow"
    /\ argv \in DOMAIN TESTS
    /\ Begin(argv)
    /\ pc' = "requirements"
    /\ UNCHANGED <<env, todo, results, ret, clock, posts, exitKind, exitCode,
                   summary>>

\* main, step in TESTS: sys.exit(0 if success else 1)
main_step_exit ==
    /\ pc = "returned" /\ script = "flow"
    /\ argv \in DOMAIN TESTS
    /\ Exit("normal", exit_code(ret))
    /\ UNCHANGED <<env, cur, todo, results, ret, missing, lsof, file, clock,
                   token, resp, posts, trace, printedId, inv, summary>>

\* test_upload: if not check_requirements(test_config): return False.
\* check_requirements runs lsof once for each entry of requires.
check_requirements ==
    /\ pc = "requirements" /\ script = "flow"
    /\ \E outs \in [1..Len(TESTS[cur].requires) -> LsofOutcomes] :
        /\ lsof' = outs
        /\ missing' = missing_list(TESTS[cur].requires, outs)
    /\ IF missing' # <<>>
       THEN /\ pc' = "returned"
            /\ ret' = FALSE
            /\ UNCHANGED trace
       ELSE /\ pc' = "exists"
            /\ trace' = Append(trace, "requirements")
            /\ UNCHANGED ret
    /\ UNCHANGED <<env, cur, todo, results, file, clock, token, resp, posts,
                   printedId, inv, exitKind, exitCode, summary>>

\* test_upload: if not os.path.exists(replay_path): return False
test_upload_exists ==
    /\ pc = "exists" /\ script = "flow"
    /\ \E f \in FileStates :
        /\ file' = f
        /\ IF path_exists(f)
           THEN /\ pc' = "token"
                /\ trace' = Append(trace, "exists")
                /\ UNCHANGED ret
           ELSE /\ pc' = "returned"
                /\ ret' = FALSE
                /\ UNCHANGED trace
    /\ UNCHANGED <<env, cur, todo, results, missing, lsof, clock, token, resp,
                   posts, printedId, inv, exitKind, exitCode, summary>>

\* generate_token without its AUTH_SECRET check.
generate_token_unchecked ==
    /\ pc = "token" /\ script = "flow"
    /\ \E t2 \in Later(clock) :
        /\ token' = <<token_payload(clock, t2, inv)>>
        /\ clock' = t2
    /\ trace' = Append(trace, "token")
    /\ pc' = "open"
    /\ UNCHANGED <<env, cur, todo, results, ret, missing, lsof, file, resp,
                   posts, printedId, inv, exitKind, exitCode, summary>>

\* test_upload: token = generate_token().  generate_token exits the process
\* when AUTH_SECRET is absent, and otherwise reads the clock twice.
generate_token ==
    /\ pc = "token" /\ script = "flow"
    /\ IF ~authSecret
       THEN /\ Exit("config", 1)
            /\ UNCHANGED <<token, clock, trace>>
       ELSE /\ \E t2 \in Later(clock) :
                /\ token' = <<token_payload(clock, t2, inv)>>
                /\ clock' = t2
            /\ trace' = Append(trace, "token")
            /\ pc' = "open"
            /\ UNCHANGED <<exitKind, exitCode>>
    /\ UNCHANGED <<env, cur, todo, results, ret, missing, lsof, file, resp,
                   posts, printedId, inv, summary>>

\* test_upload: with open(replay_path, 'rb') as f -- outside the try.
test_upload_open ==
    /\ pc = "open" /\ script = "flow"
    /\ IF can_open(file)
       THEN /\ pc' = "post"
            /\ trace' = Append(trace, "open")
            /\ UNCHANGED <<exitKind, exitCode>>
       ELSE /\ Exit("crash", 1)
            /\ UNCHANGED trace
    /\ UNCHANGED <<env, cur, todo, results, ret, missing, lsof, file, clock,
                   token, resp, posts, printedId, inv, summary>>

\* test_upload: response = requests.post(...)
test_upload_post ==
    /\ pc = "post" /\ script = "flow"
    /\ posts' = Append(posts, [inv |-> inv,
                               base |-> TESTS[cur].api_url,
                               path |-> "/api/my-replays",
                               bearer |-> token[1].mint])
    /\ \E o \in Outcomes : resp' = <<o>>
    /\ trace' = Append(trace, "post")
    /\ pc' = "interpret"
    /\ UNCHANGED <<env, cur, todo, results, ret, missing, lsof, file, clock,
                   token, printedId, inv, exitKind, exitCode, summary>>

\* test_upload: the rest of the try block and its except clauses.
test_upload_interpret ==
    /\ pc = "interpret" /\ script = "flow"
    /\ ret' = test_upload_result(resp[1]).ret
    /\ printedId' = test_upload_result(resp[1]).id
    /\ pc' = "returned"
    /\ UNCHANGED <<env, cur, todo, results, missing, lsof, file, clock, token,
                   resp, posts, trace, inv, exitKind, exitCode, summary>>

Next ==
    \/ S1_config
    \/ S1_main
    \/ S1_generate_token
    \/ S1_exists
    \/ S1_open
    \/ S1_post
    \/ S1_interpret
    \/ S1_exit
    \/ load
    \/ main_usage
    \/ main_all
    \/ main_all_call
    \/ main_all_store
    \/ main_all_summary
    \/ main_step
    \/ main_step_exit
    \/ check_requirements
    \/ test_upload_exists
    \/ generate_token
    \/ test_upload_open
    \/ test_upload_post
    \/ test_upload_interpret

Spec == Init /\ [][Next]_vars


(***************************************************************************)
(* Properties.                                                             *)
(***************************************************************************)

\* Number of POSTs issued by runner invocation n.
PostsOf(n) == Cardinality({i \in 1..Len(posts) : posts[i].inv = n})

\* The runner invocation in progress has ended (returned, or the process
\* ended while it ran).
RunnerEnded == inv >= 1 /\ pc \in {"returned", "loop", "exited"}

Failed(res) == {i \in 1..Len(res) : ~res[i].passed}

FailLines == {i \in 1..Len(summary) : summary[i].status = "FAIL"}

\* C1: in the scenario runner the exit code is 0 exactly when every scenario
\* the step key selects returned True: for a single step, when its
\* test_upload returned True; for "all", when all three returned True.  One
\* failed scenario out of three gives exit code 1 and a summary with exactly
\* one FAIL line.
C1_ExitCodeIffAllSucceeded ==
    (pc = "exited" /\ script = "flow" /\ argv \in DOMAIN TESTS \cup {"all"}) =>
        IF argv = "all"
        THEN /\ exitCode = 0 <=>
                    /\ exitKind = "normal"
                    /\ {results[i].key : i \in 1..Len(results)} = DOMAIN TESTS
                    /\ Failed(results) = {}
             /\ (Len(results) = 3 /\ Cardinality(Failed(results)) = 1) =>
                    /\ exitCode = 1
                    /\ Cardinality(FailLines) = 1
                    /\ Len(summary) = 3
        ELSE exitCode = 0 <=> (exitKind = "normal" /\ cur = argv /\ ret)

C1_Witness ==
    /\ pc = "exited" /\ script = "flow" /\ argv = "all"
    /\ Len(results) = 3 /\ Cardinality(Failed(results)) = 1
    /\ exitCode = 1

\* C2: in both scripts, when the replay path does not exist the runner
\* returns False and issues no POST in that invocation.
C2_MissingFileNoPost ==
    file = "missing" =>
        /\ PostsOf(inv) = 0
        /\ pc \in {"returned", "loop", "exited"}
        /\ ret = FALSE
        /\ pc = "exited" => exitKind = "normal" /\ exitCode = 1

C2_Witness ==
    /\ file = "missing" /\ pc = "returned" /\ script = "step1"
    /\ token # <<>>

\* C3: in the scenario runner, when at least one required port is not
\* listening (its lsof call did not return 0), test_upload issues no POST and
\* returns False, and the missing list is exactly the required markers whose
\* port check failed; step 3, which requires nothing, never fails the check.
C3_MissingServices ==
    (script = "flow" /\ cur \in DOMAIN TESTS /\ pc # "requirements") =>
        LET req == TESTS[cur].requires
            down == {i \in 1..Len(req) : lsof[i] # "rc0"}
        IN  /\ Len(lsof) = Len(req)
            /\ Range(missing) = {req[i] : i \in down}
            /\ Len(missing) = Cardinality(down)
            /\ \A i, j \in 1..Len(missing) :
                    i < j => \E a, b \in down :
                                a < b /\ missing[i] = req[a]
                                      /\ missing[j] = req[b]
            /\ down # {} =>
                    /\ PostsOf(inv) = 0
                    /\ ret = FALSE
                    /\ pc \in {"returned", "loop", "exited"}
            /\ cur = "3" => missing = <<>>

C3_Witness ==
    /\ script = "flow" /\ cur = "1" /\ pc = "returned"
    /\ missing = <<"sc2reader:8000">>

\* C4: each runner invocation makes a single attempt: exactly one POST to
\* <base>/api/my-replays when the file exists (in the scenario runner: and
\* the required ports are listening and the secret is present), and never a
\* second POST.
C4_ExactlyOnePost ==
    /\ \A n \in 1..inv : PostsOf(n) <= 1
    /\ \A i \in 1..Len(posts) : posts[i].path = "/api/my-replays"
    /\ (RunnerEnded /\ authSecret /\ file \in {"unreadable", "readable"}) =>
            PostsOf(inv) = 1

\* C5: whatever the clock does during issuance, the decoded expiry of a
\* token is exactly 3600 seconds after its decoded issued-at, and the
\* payload carries userId, type = "uploader" and roles = [roleId].
C5_ExpiryOneHourAfterIssue ==
    token # <<>> =>
        /\ token[1].exp = token[1].iat + HourSeconds
        /\ token[1].userId = USER_ID
        /\ token[1].type = "uploader"
        /\ token[1].roles = <<ROLE_ID>>

\* C6: every non-configuration error of a runner invocation ends as a
\* returned False; the process never ends on an unhandled exception, the
\* configuration check being the only abnormal way out of a runner.
C6_NoUnhandledException ==
    /\ exitKind # "crash"
    /\ (pc = "exited" /\ inv >= 1 /\ exitKind # "config") =>
            exitKind = "normal"

\* C7: in both scripts, for every command line, the process exits with code
\* 1 when AUTH_SECRET or SC2READER_API_KEY is absent.
C7_MissingSecretExitsOne ==
    (pc = "exited" /\ (~authSecret \/ ~apiKey)) => exitCode = 1

\* C8: once the POST has a response, the runner returns True exactly when
\* the status is 200 and the body is a JSON object with a true success flag
\* and a replay object holding an id (the id reported); every other response
\* returns False.
WellFormedSuccess(o) ==
    /\ o.status = 200
    /\ o.body.json = "object"
    /\ o.body.success = "true"
    /\ o.body.replay = "object"
    /\ o.body.id # "absent"

C8_ResultFromStatusAndBody ==
    (pc = "returned" /\ resp # <<>> /\ resp[1].kind = "response") =>
        /\ ret <=> WellFormedSuccess(resp[1])
        /\ ret => printedId = resp[1].body.id

\* C9: with step "all" the three scenarios run in key order 1, 2, 3, each
\* once and to completion, whatever an earlier one did, and the summary has
\* one result per scenario.  (Stated for runs with AUTH_SECRET present: its
\* absence is the documented fatal configuration exit.)
C9_AllScenariosRun ==
    (pc = "exited" /\ script = "flow" /\ argv = "all" /\ authSecret) =>
        /\ exitKind = "normal"
        /\ inv = 3
        /\ [i \in 1..Len(results) |-> results[i].key] = SortedKeys
        /\ Len(summary) = 3

\* C10: no POST is issued while the signing secret is absent; every POST
\* carries the token minted earlier in the same invocation; in the scenario
\* runner a POST comes after the requirements check, the existence check and
\* token generation, in this order; a missing or invalid step key exits with
\* code 1 before any of these steps.
C10_PostPreconditions ==
    /\ posts # <<>> => authSecret
    /\ \A i \in 1..Len(posts) : posts[i].bearer = posts[i].inv
    /\ (inv >= 1 /\ PostsOf(inv) = 1) =>
            /\ token # <<>> /\ token[1].mint = inv
            /\ trace = IF script = "flow"
                       THEN <<"requirements", "exists", "token", "open", "post">>
                       ELSE <<"token", "exists", "open", "post">>
            /\ file = "readable"
            /\ missing = <<>>
    /\ (script = "flow" /\ pc = "exited" /\ argv \notin DOMAIN TESTS \cup {"all"}) =>
            /\ exitCode = 1
            /\ inv = 0 /\ trace = <<>> /\ posts = <<>>
            /\ token = <<>> /\ file = "unchecked" /\ lsof = <<>>

C10_Witness ==
    /\ script = "flow" /\ pc = "interpret" /\ cur = "1"
    /\ PostsOf(inv) = 1 /\ authSecret

====
